---- MODULE Spec2Model ----
(***************************************************************************)
(* BoxtingContract (src/src/boxting-contract.ts, lines 1-457) as a state   *)
(* machine over the Fabric world state.  Every transaction handler is a    *)
(* pure operator from (world state, arguments, Date.now(), Math.random())  *)
(* to a response [err, ret, writes]; the write set of a handler that       *)
(* returned normally is committed, the write set of one that threw is      *)
(* discarded.  Transactions are submitted one at a time: a handler runs    *)
(* when no response is outstanding, and Deliver hands the response back.   *)
(***************************************************************************)
EXTENDS Integers, Sequences, FiniteSets, TLC

VARIABLES ledger, response, cast, inflight, iterator

vars == <<ledger, response, cast, inflight, iterator>>

(* ------------------------------ bounds -------------------------------- *)

\* Date.now() ranges over 1..MaxTime.
MaxTime == 3

\* Longest candidate id list passed to emitVote.
MaxListLen == 2

\* Votes cast in one run.
MaxCast == 2

\* Transactions endorsed and not yet committed at one time.
MaxInFlight == 2

(* --------------------------- input universe --------------------------- *)

EventIdSeq == <<"ev1", "ev2">>

ElectionIdSeq == <<"el1", "el2">>

CandidateIdSeq == <<"c1", "c2", "c3">>

VoterIdSeq == <<"v1", "v2">>

\* The strings Math.random().toString(36)... can produce, cut to two.
VoteIdSeq == <<"r1", "r2">>

Range(s) == {s[i] : i \in 1..Len(s)}

EventIds == Range(EventIdSeq)

ElectionIds == Range(ElectionIdSeq)

CandidateIds == Range(CandidateIdSeq)

VoterIds == Range(VoterIdSeq)

VoteIds == Range(VoteIdSeq)

\* Date strings an init payload may carry.
DateStrings == {"d2", "d3"}

Times == 1..MaxTime

(* ----------------------------- JS values ------------------------------ *)

\* The value of a property an object does not have.
Undefined == "undefined"

\* Number.NaN: every comparison with it is false.
NaN == 0 - 1

\* obj.f
GetProp(obj, f) == IF f \in DOMAIN obj THEN obj[f] ELSE Undefined

\* new Date(s).getTime(): milliseconds for a date string, NaN for anything
\* that is no date (undefined included).
DateGetTime(s) ==
    CASE s = "d1" -> 1
      [] s = "d2" -> 2
      [] s = "d3" -> 3
      [] s = "d4" -> 4
      [] OTHER -> NaN

\* a < b on JS numbers
JsLt(a, b) == a # NaN /\ b # NaN /\ a < b

\* a >= b on JS numbers
JsGe(a, b) == a # NaN /\ b # NaN /\ a >= b

\* JSON.stringify(v): a string holding the encoding of v.
Stringify(v) == [json |-> v]

\* A string that is no JSON text.
Malformed == [malformed |-> TRUE]

\* Whether JSON.parse(s) returns (it throws a SyntaxError otherwise).
Parses(s) == "json" \in DOMAIN s

\* JSON.parse(s) for a string that parses.
Parse(s) == s.json

\* arr.indexOf(x) != -1
Includes(arr, x) == \E i \in 1..Len(arr) : arr[i] = x

(* ------------------------------ entities ------------------------------ *)

Event(eventId, startDate, endDate) ==
    [id |-> eventId, startDate |-> startDate, endDate |-> endDate,
     type |-> "event"]

Election(electionId, eventId, electionType, maxVotes) ==
    [id |-> electionId, eventId |-> eventId, electionType |-> electionType,
     maxVotes |-> maxVotes, type |-> "election"]

\* A votable item constructed with one vote already counted.
VotableItemCounted(votableId, electionId) ==
    [id |-> votableId, electionId |-> electionId, voteCount |-> 1,
     type |-> "votable"]

VotableItem(votableId, electionId) ==
    [id |-> votableId, electionId |-> electionId, voteCount |-> 0,
     type |-> "votable"]

Voter(voterId) ==
    [id |-> voterId, votedElectionIds |-> Stringify(<<>>), type |-> "voter"]

Vote(rnd, voterId, electionId, selectedCandidates) ==
    [id |-> rnd, voterId |-> voterId, electionId |-> electionId,
     selectedCandidates |-> selectedCandidates, type |-> "vote"]

(* ----------------------------- world state ---------------------------- *)

\* `${prefix}-${id}`
Key(prefix, id) == <<prefix, id>>

KeysOf(prefix, ids) == [i \in 1..Len(ids) |-> Key(prefix, ids[i])]

\* Every key of the model, in the order a query returns them.
KeySeq ==
    KeysOf("candidate", CandidateIdSeq) \o KeysOf("election", ElectionIdSeq)
        \o KeysOf("event", EventIdSeq) \o KeysOf("vote", VoteIdSeq)
        \o KeysOf("voter", VoterIdSeq)

Keys == Range(KeySeq)

\* What getState returns for a key never written: no bytes.
NoState == [type |-> "absent"]

\* !!data && data.length > 0
HasData(data) == data # NoState

\* ctx.stub.getState(key)
GetState(l, key) == IF key \in DOMAIN l THEN l[key] ELSE NoState

Put(key, value) == [key |-> key, value |-> value]

RECURSIVE ApplyWrites(_, _)
\* The world state after a committed write set, applied in issue order.
ApplyWrites(l, writes) ==
    IF writes = <<>> THEN l
    ELSE ApplyWrites([l EXCEPT ![Head(writes).key] = Head(writes).value],
                     Tail(writes))

(* ------------------------------ queries ------------------------------- *)

\* A CouchDB selector: every field of the selector is a field of the
\* document with the same value.
Matches(doc, selector) ==
    \A f \in DOMAIN selector : f \in DOMAIN doc /\ doc[f] = selector[f]

\* One element of allResults: { key, record }.
JsonRes(key, record) == [key |-> key, record |-> record]

\* queryWithQueryString: the array of { key, record } wrappers of the
\* documents the selector matches.
QueryWithQueryString(l, selector) ==
    LET hits == SelectSeq(KeySeq,
                          LAMBDA k : HasData(l[k]) /\ Matches(l[k], selector))
    IN  [i \in 1..Len(hits) |-> JsonRes(hits[i], l[hits[i]])]

QueryByObjectType(l, objectType) ==
    QueryWithQueryString(l, [type |-> objectType])

\* checkIfExists(ctx, key)
CheckIfExists(l, key) == HasData(GetState(l, key))

(* ----------------------------- responses ------------------------------ *)

NoError == "ok"

\* A handler that returned: its return value and the puts it issued.
Return(ret, writes) == [err |-> NoError, ret |-> ret, writes |-> writes]

\* A handler that threw new Error(msg): no put was issued before.
Throw(msg) == [err |-> msg, ret |-> Undefined, writes |-> <<>>]

ErrSyntax == "SyntaxError"

ErrAlreadyInitiated == "The boxting contract has already been initiated"

ErrNotInitiated == "The boxting contract has not been initiated"

ErrVoterExists == "A voter with the id already exists"

ErrCandidateMissing == "A candidate with the id does not exists"

ErrNotFinished == "The event has not finished yet, cannot get results"

ErrElectionMissing == "The election does not exists"

ErrVoterMissing == "The voter does not exists"

ErrNotVotedYet == "The voter has not voted yet"

ErrNotVotedHere == "The voter has not voted yet on this election."

ErrNotAvailable == "The event is not avaliable for voting"

ErrAlreadyVoted == "The voter has already voted for the election"

ErrWrongCount == "The number of candidates sent is not the same as the required for the election"

ErrNotBelong == "A candidate with the id does not belong to election"

(* ------------------------------ handlers ------------------------------ *)

\* validateInit letting every call through.
ValidateInitSkipped(l) ==
    [err |-> NoError, event |-> JsonRes(Undefined, Undefined)]

\* validateInit: the first element of the event query, or the error.
ValidateInit(l) ==
    LET existingEvent == QueryByObjectType(l, "event")
    IN  IF Len(existingEvent) = 0
        THEN [err |-> ErrNotInitiated, event |-> Undefined]
        ELSE [err |-> NoError, event |-> existingEvent[1]]

\* The puts initContract issues without awaiting them, in issue order:
\* one per election, then one per candidate.
InitForEachPuts(initData) ==
    [i \in 1..Len(initData.elections) |->
        LET elem == initData.elections[i]
        IN  Put(Key("election", elem.id),
                Election(elem.id, elem.eventId, elem.electionType,
                         elem.maxVotes))]
    \o
    [i \in 1..Len(initData.candidates) |->
        LET elem == initData.candidates[i]
        IN  Put(Key("candidate", elem.id),
                VotableItem(elem.id, elem.electionId))]

\* initContract with the guard a lookup of the key of the payload's own
\* event instead of the query for any event.
InitContractKeyGuard(l, initDataStr, landed) ==
    IF ~Parses(initDataStr) THEN Throw(ErrSyntax)
    ELSE
    LET initData == Parse(initDataStr)
        eventData == initData.event
        event == Event(eventData.id, eventData.startDate, eventData.endDate)
    IN  IF HasData(GetState(l, Key("event", eventData.id)))
        THEN Throw(ErrAlreadyInitiated)
        ELSE Return(TRUE,
                    <<Put(Key("event", event.id), event)>>
                        \o SubSeq(InitForEachPuts(initData), 1, landed))

\* initContract.  The event put is awaited; the forEach callbacks are
\* async and nobody awaits them, so when the handler returns only the
\* first `landed` of their puts have reached the transaction's write set.
InitContract(l, initDataStr, landed) ==
    IF ~Parses(initDataStr) THEN Throw(ErrSyntax)
    ELSE
    LET initData == Parse(initDataStr)
        existingEvent == QueryByObjectType(l, "event")
        eventData == initData.event
        event == Event(eventData.id, eventData.startDate, eventData.endDate)
    IN  IF Len(existingEvent) > 0 THEN Throw(ErrAlreadyInitiated)
        ELSE Return(TRUE,
                    <<Put(Key("event", event.id), event)>>
                        \o SubSeq(InitForEachPuts(initData), 1, landed))

\* createVoter without the test for a registered voter.
CreateVoterNoGuard(l, voterDataStr) ==
    IF ~Parses(voterDataStr) THEN Throw(ErrSyntax)
    ELSE
    LET voterData == Parse(voterDataStr)
        voter == Voter(voterData.id)
    IN  Return(TRUE, <<Put(Key("voter", voter.id), voter)>>)

\* createVoter
CreateVoter(l, voterDataStr) ==
    IF ~Parses(voterDataStr) THEN Throw(ErrSyntax)
    ELSE
    LET voterData == Parse(voterDataStr)
        data == GetState(l, Key("voter", voterData.id))
        voter == Voter(voterData.id)
    IN  IF HasData(data) THEN Throw(ErrVoterExists)
        ELSE Return(TRUE, <<Put(Key("voter", voter.id), voter)>>)

\* readCandidate
ReadCandidate(l, candidateId, now) ==
    LET init == ValidateInit(l)
        event == init.event
        data == GetState(l, Key("candidate", candidateId))
        endDate == DateGetTime(GetProp(event, "endDate"))
    IN  IF init.err # NoError THEN Throw(init.err)
        ELSE IF ~HasData(data) THEN Throw(ErrCandidateMissing)
        ELSE IF JsLt(now, endDate) THEN Throw(ErrNotFinished)
        ELSE Return(data, <<>>)

\* getElectionResults
GetElectionResults(l, electionId, now) ==
    LET init == ValidateInit(l)
        event == init.event
        endDate == DateGetTime(GetProp(event, "endDate"))
    IN  IF init.err # NoError THEN Throw(init.err)
        ELSE IF ~CheckIfExists(l, Key("election", electionId))
        THEN Throw(ErrElectionMissing)
        ELSE IF JsLt(now, endDate) THEN Throw(ErrNotFinished)
        ELSE Return(QueryWithQueryString(
                        l, [electionId |-> electionId, type |-> "votable"]),
                    <<>>)

\* readVote
ReadVote(l, electionId, voterId) ==
    LET init == ValidateInit(l)
        voter == GetState(l, Key("voter", voterId))
        votes == QueryWithQueryString(
                     l, [electionId |-> electionId, voterId |-> voterId,
                         type |-> "vote"])
    IN  IF init.err # NoError THEN Throw(init.err)
        ELSE IF ~CheckIfExists(l, Key("election", electionId))
        THEN Throw(ErrElectionMissing)
        ELSE IF ~CheckIfExists(l, Key("voter", voterId))
        THEN Throw(ErrVoterMissing)
        ELSE IF Len(Parse(voter.votedElectionIds)) = 0
        THEN Throw(ErrNotVotedYet)
        ELSE IF Len(votes) = 0 THEN Throw(ErrNotVotedHere)
        ELSE Return(votes[1], <<>>)

\* The candidate test letting every candidate through.
BelongsToAny(votableItem, electionId) == TRUE

\* The list-length test letting every length through.
CountAlwaysMatches(votableIds, election) == TRUE

\* The test emitVote makes on a candidate it found:
\* votableItem.electionId != electionId throws.
BelongsTo(votableItem, electionId) == votableItem.electionId = electionId

\* The count test letting shorter lists through.
CountAtMost(votableIds, election) == Len(votableIds) <= election.maxVotes

\* The test emitVote makes on the parsed list:
\* votableIds.length != election.maxVotes throws.
CountMatches(votableIds, election) == Len(votableIds) = election.maxVotes

RECURSIVE CollectVotables(_, _, _, _)
\* The for loop of emitVote from index i on: the first error met, or the
\* votables collected.
CollectVotables(l, electionId, votableIds, i) ==
    IF i > Len(votableIds) THEN [err |-> NoError, votables |-> <<>>]
    ELSE
    LET data == GetState(l, Key("candidate", votableIds[i]))
        rest == CollectVotables(l, electionId, votableIds, i + 1)
    IN  IF ~HasData(data)
        THEN [err |-> ErrCandidateMissing, votables |-> <<>>]
        ELSE IF ~BelongsTo(data, electionId)
        THEN [err |-> ErrNotBelong, votables |-> <<>>]
        ELSE IF rest.err # NoError THEN rest
        ELSE [err |-> NoError, votables |-> <<data>> \o rest.votables]

\* The duplicate-vote test answering "not found" whatever the list holds.
HasVotedNever(voter, election) == FALSE

\* votedElectionIds.indexOf(election.id) != -1
HasVoted(voter, election) ==
    Includes(Parse(voter.votedElectionIds), election.id)

\* Whether emitVote's window test lets the call through.
IsVotingOpen(event, now) ==
    LET endDate == DateGetTime(GetProp(event, "endDate"))
        startDate == DateGetTime(GetProp(event, "startDate"))
    IN  ~(JsLt(now, startDate) \/ JsGe(now, endDate))

\* emitVote up to the comment "Vote Execution": the error of the first
\* check that fails, or the votables collected.
EmitVoteChecks(l, electionId, voterId, candidateIds, now) ==
    LET init == ValidateInit(l)
        electionData == GetState(l, Key("election", electionId))
        voterData == GetState(l, Key("voter", voterId))
        election == electionData
        voter == voterData
        votableIds == Parse(candidateIds)
        loop == CollectVotables(l, electionId, votableIds, 1)
    IN  IF init.err # NoError THEN Throw(init.err)
        ELSE IF ~IsVotingOpen(init.event, now) THEN Throw(ErrNotAvailable)
        ELSE IF ~HasData(electionData) THEN Throw(ErrElectionMissing)
        ELSE IF ~HasData(voterData) THEN Throw(ErrVoterMissing)
        ELSE IF HasVoted(voter, election) THEN Throw(ErrAlreadyVoted)
        ELSE IF ~Parses(candidateIds) THEN Throw(ErrSyntax)
        ELSE IF ~CountMatches(votableIds, election) THEN Throw(ErrWrongCount)
        ELSE IF loop.err # NoError THEN Throw(loop.err)
        ELSE Return(loop.votables, <<>>)

\* The voter written back without the push.
RecordVoteNoPush(voter, election) == voter

\* The voter written back with the list replaced by the one election.
RecordVoteOnlyLast(voter, election) ==
    [voter EXCEPT !.votedElectionIds = Stringify(<<election.id>>)]

\* The voter record emitVote writes back: election.id pushed on the list.
RecordVote(voter, election) ==
    [voter EXCEPT !.votedElectionIds =
        Stringify(Append(Parse(voter.votedElectionIds), election.id))]

\* emitVote also writing back each chosen candidate with its count raised.
EmitVoteTallying(l, electionId, voterId, candidateIds, now, rnd) ==
    LET checks == EmitVoteChecks(l, electionId, voterId, candidateIds, now)
        election == GetState(l, Key("election", electionId))
        voter == GetState(l, Key("voter", voterId))
        vote == Vote(rnd, voter.id, election.id, Stringify(checks.ret))
    IN  IF checks.err # NoError THEN checks
        ELSE Return(TRUE,
                    <<Put(Key("voter", voter.id), RecordVote(voter, election)),
                      Put(Key("vote", vote.id), vote)>>
                    \o [i \in 1..Len(checks.ret) |->
                          Put(Key("candidate", checks.ret[i].id),
                              [checks.ret[i] EXCEPT !.voteCount = @ + 1])])

\* emitVote; rnd is the id the Vote constructor draws with Math.random().
EmitVote(l, electionId, voterId, candidateIds, now, rnd) ==
    LET checks == EmitVoteChecks(l, electionId, voterId, candidateIds, now)
        election == GetState(l, Key("election", electionId))
        voter == GetState(l, Key("voter", voterId))
        vote == Vote(rnd, voter.id, election.id, Stringify(checks.ret))
    IN  IF checks.err # NoError THEN checks
        ELSE Return(TRUE,
                    <<Put(Key("voter", voter.id), RecordVote(voter, election)),
                      Put(Key("vote", vote.id), vote)>>)

\* checkVoteElection answering for any election the voter voted in.
CheckVoteAnyElection(l, electionId, voterId) ==
    LET electionData == GetState(l, Key("election", electionId))
        voterData == GetState(l, Key("voter", voterId))
    IN  IF ~HasData(electionData) THEN Throw(ErrElectionMissing)
        ELSE IF ~HasData(voterData) THEN Throw(ErrVoterMissing)
        ELSE Return(Len(Parse(voterData.votedElectionIds)) > 0, <<>>)

\* checkVoteElection
CheckVoteElection(l, electionId, voterId) ==
    LET electionData == GetState(l, Key("election", electionId))
        voterData == GetState(l, Key("voter", voterId))
    IN  IF ~HasData(electionData) THEN Throw(ErrElectionMissing)
        ELSE IF ~HasData(voterData) THEN Throw(ErrVoterMissing)
        ELSE Return(HasVoted(voterData, electionData), <<>>)

(* ------------------------------- inputs ------------------------------- *)

\* An event with a voting window, and one under another id whose window
\* is inverted (initContract stores whatever dates it is given).
EventDatas ==
    <<[id |-> "ev1", startDate |-> "d2", endDate |-> "d3"],
      [id |-> "ev2", startDate |-> "d3", endDate |-> "d2"]>>

ElectionDatas ==
    <<[id |-> "el1", eventId |-> "ev1", electionType |-> "single",
       maxVotes |-> 1],
      [id |-> "el2", eventId |-> "ev1", electionType |-> "multiple",
       maxVotes |-> 2]>>

CandidateDatas ==
    <<[id |-> "c1", electionId |-> "el1"],
      [id |-> "c2", electionId |-> "el2"],
      [id |-> "c3", electionId |-> "el2"]>>

\* The initDataStr arguments tried: the first event with the elections
\* and candidates, the second with no election and a candidate that names
\* one, and a string that is no JSON.
InitDataStrs ==
    {Stringify([event |-> EventDatas[1], elections |-> ElectionDatas,
                candidates |-> CandidateDatas]),
     Stringify([event |-> EventDatas[2], elections |-> <<>>,
                candidates |-> SubSeq(CandidateDatas, 1, 1)]),
     Malformed}

VoterDataStrs == {Stringify([id |-> v]) : v \in VoterIds} \cup {Malformed}

CandidateIdLists == UNION {[1..n -> CandidateIds] : n \in 0..MaxListLen}

CandidateIdsStrs == {Stringify(ids) : ids \in CandidateIdLists} \cup {Malformed}

\* How many un-awaited puts a call of initContract with this argument issues.
InitPending(initDataStr) ==
    IF Parses(initDataStr) THEN Len(InitForEachPuts(Parse(initDataStr))) ELSE 0

(* ---------------------------- state machine --------------------------- *)

NoResponse == [op |-> "none"]

Idle == response = NoResponse

\* No query iterator has been opened.
NoIterator == [state |-> "none"]

\* No transaction occupies the slot.
NoProposal == [op |-> "none"]

Slots == 1..MaxInFlight

Init ==
    /\ ledger = [k \in Keys |-> NoState]
    /\ response = NoResponse
    /\ cast = {}
    /\ inflight = [s \in Slots |-> NoProposal]
    /\ iterator = NoIterator

\* The transaction ends: a handler that returned has its write set
\* committed, one that threw has it discarded; the client gets the response.
Respond(op, args, r) ==
    /\ response' = [op |-> op, args |-> args, err |-> r.err, ret |-> r.ret,
                    writes |-> r.writes]
    /\ ledger' = IF r.err = NoError THEN ApplyWrites(ledger, r.writes)
                 ELSE ledger

InitContractTx ==
    /\ Idle
    /\ \E initDataStr \in InitDataStrs :
         \E landed \in 0..InitPending(initDataStr) :
            Respond("initContract", [initDataStr |-> initDataStr],
                    InitContract(ledger, initDataStr, landed))
    /\ UNCHANGED <<cast, inflight, iterator>>

CreateVoterTx ==
    /\ Idle
    /\ \E voterDataStr \in VoterDataStrs :
         Respond("createVoter", [voterDataStr |-> voterDataStr],
                 CreateVoter(ledger, voterDataStr))
    /\ UNCHANGED <<cast, inflight, iterator>>

ReadCandidateTx ==
    /\ Idle
    /\ \E candidateId \in CandidateIds, now \in Times :
         Respond("readCandidate", [candidateId |-> candidateId, now |-> now],
                 ReadCandidate(ledger, candidateId, now))
    /\ UNCHANGED <<cast, inflight, iterator>>

GetElectionResultsTx ==
    /\ Idle
    /\ \E electionId \in ElectionIds, now \in Times :
         Respond("getElectionResults",
                 [electionId |-> electionId, now |-> now],
                 GetElectionResults(ledger, electionId, now))
    /\ UNCHANGED <<cast, inflight, iterator>>

ReadVoteTx ==
    /\ Idle
    /\ \E electionId \in ElectionIds, voterId \in VoterIds :
         Respond("readVote", [electionId |-> electionId, voterId |-> voterId],
                 ReadVote(ledger, electionId, voterId))
    /\ UNCHANGED <<cast, inflight, iterator>>

\* Math.random() is reached only by a call that passed every check.
RandomIds(l, electionId, voterId, candidateIds, now) ==
    IF EmitVoteChecks(l, electionId, voterId, candidateIds, now).err = NoError
    THEN VoteIds ELSE {VoteIdSeq[1]}

EmitVoteTx ==
    /\ Idle
    /\ \E electionId \in ElectionIds, voterId \in VoterIds,
          candidateIds \in CandidateIdsStrs, now \in Times :
         \E rnd \in RandomIds(ledger, electionId, voterId, candidateIds, now) :
            LET args == [electionId |-> electionId, voterId |-> voterId,
                         candidateIds |-> candidateIds, now |-> now]
                r == EmitVote(ledger, electionId, voterId, candidateIds, now,
                              rnd)
            IN  /\ r.err = NoError => Cardinality(cast) < MaxCast
                /\ Respond("emitVote", args, r)
                /\ cast' = IF r.err = NoError
                           THEN cast \cup {[electionId |-> electionId,
                                            voterId |-> voterId,
                                            candidateIds |-> candidateIds]}
                           ELSE cast
                /\ UNCHANGED <<inflight, iterator>>

CheckVoteElectionTx ==
    /\ Idle
    /\ \E electionId \in ElectionIds, voterId \in VoterIds :
         Respond("checkVoteElection",
                 [electionId |-> electionId, voterId |-> voterId],
                 CheckVoteElection(ledger, electionId, voterId))
    /\ UNCHANGED <<cast, inflight, iterator>>

\* The client has its response; the next transaction can be submitted.
Deliver ==
    /\ ~Idle
    /\ response' = NoResponse
    /\ UNCHANGED <<ledger, cast, inflight, iterator>>

Next ==
    \/ InitContractTx
    \/ CreateVoterTx
    \/ ReadCandidateTx
    \/ GetElectionResultsTx
    \/ ReadVoteTx
    \/ EmitVoteTx
    \/ CheckVoteElectionTx
    \/ Deliver

Spec == Init /\ [][Next]_vars

(* ----------------------- concurrent transactions --------------------- *)
(* A transaction is first simulated against the committed world state,    *)
(* which records the keys it read with their versions and the puts it     *)
(* issued, and committed later; at commit it is invalidated when a key it *)
(* read has been written since.  A key returned by a selector query is    *)
(* in the read set; the query itself is not run again at commit.          *)

\* The keys a query's results put in the read set.
QueryReads(results) == {results[i].key : i \in 1..Len(results)}

\* The keys initContract reads: those the event query returned.
InitContractReads(l) == QueryReads(QueryByObjectType(l, "event"))

\* The key createVoter reads with getState.
CreateVoterReads(voterDataStr) == {Key("voter", Parse(voterDataStr).id)}

\* The keys an emitVote that passes every check reads, without the voter.
EmitVoteReadsNoVoter(l, electionId, voterId, candidateIds) ==
    QueryReads(QueryByObjectType(l, "event"))
        \cup {Key("election", electionId)}
        \cup {Key("candidate", c) : c \in Range(Parse(candidateIds))}

\* The keys of the event query alone.
EmitVoteReadsQueryOnly(l, electionId, voterId, candidateIds) ==
    QueryReads(QueryByObjectType(l, "event"))

\* The keys an emitVote that passes every check reads: those of the event
\* query of validateInit, then getState of the election, the voter and
\* each listed candidate.  The vote key is written without being read.
EmitVoteReads(l, electionId, voterId, candidateIds) ==
    QueryReads(QueryByObjectType(l, "event"))
        \cup {Key("election", electionId), Key("voter", voterId)}
        \cup {Key("candidate", c) : c \in Range(Parse(candidateIds))}

Proposal(op, args, reads, writes) ==
    [op |-> op, args |-> args, reads |-> reads, writes |-> writes,
     stale |-> FALSE]

WrittenKeys(writes) == {writes[i].key : i \in 1..Len(writes)}

FreeSlots == {s \in Slots : inflight[s] = NoProposal}

\* The simulated transaction waits in the lowest free slot.
Submit(p) ==
    /\ inflight' = [inflight EXCEPT
                       ![CHOOSE s \in FreeSlots : \A t \in FreeSlots : s <= t]
                           = p]
    /\ UNCHANGED <<ledger, response, cast, iterator>>

\* The emitVote transactions in flight.
VotesInFlight == {s \in Slots : inflight[s].op = "emitVote"}

\* The initDataStr arguments of the concurrent runs: two events of
\* different ids, the first with one election and its candidate.
ConcurrentInitDataStrs ==
    {Stringify([event |-> EventDatas[1],
                elections |-> SubSeq(ElectionDatas, 1, 1),
                candidates |-> SubSeq(CandidateDatas, 1, 1)]),
     Stringify([event |-> EventDatas[2], elections |-> <<>>,
                candidates |-> <<>>])}

EndorseInitContract ==
    /\ FreeSlots # {}
    /\ \E initDataStr \in ConcurrentInitDataStrs :
      \E landed \in 0..InitPending(initDataStr) :
        LET r == InitContract(ledger, initDataStr, landed)
        IN  /\ r.err = NoError
            /\ Submit(Proposal("initContract",
                               [initDataStr |-> initDataStr],
                               InitContractReads(ledger), r.writes))

EndorseCreateVoter ==
    /\ FreeSlots # {}
    /\ \E voterDataStr \in VoterDataStrs :
        LET r == CreateVoter(ledger, voterDataStr)
        IN  /\ r.err = NoError
            /\ Submit(Proposal("createVoter",
                               [voterDataStr |-> voterDataStr],
                               CreateVoterReads(voterDataStr), r.writes))

\* Only a simulation that succeeded is submitted.  A call that fails
\* before it parses the candidate list fails so for every list, which the
\* first conjunct under the quantifier uses to skip the lists.
EndorseEmitVote ==
    /\ FreeSlots # {}
    /\ Cardinality(cast) + Cardinality(VotesInFlight) < MaxCast
    /\ \E electionId \in ElectionIds, voterId \in VoterIds, now \in Times :
        /\ EmitVoteChecks(ledger, electionId, voterId, Malformed, now).err
             = ErrSyntax
        /\ \E candidateIds \in CandidateIdsStrs, rnd \in VoteIds :
                LET r == EmitVote(ledger, electionId, voterId, candidateIds, now, rnd)
                IN  /\ r.err = NoError
                    /\ Submit(Proposal("emitVote",
                                       [electionId |-> electionId,
                                        voterId |-> voterId,
                                        candidateIds |-> candidateIds],
                                       EmitVoteReads(ledger, electionId, voterId,
                                                     candidateIds),
                                       r.writes))

\* The transaction in the slot reaches commit.  One that read a key written
\* since its simulation is invalidated and writes nothing; a valid one has
\* its writes applied, which outdates the reads of those still in flight.
Commit ==
    \E slot \in Slots :
        LET p == inflight[slot]
            valid == ~p.stale
            outdated(q) == /\ valid
                           /\ q # NoProposal
                           /\ q.reads \cap WrittenKeys(p.writes) # {}
        IN  /\ p # NoProposal
            /\ ledger' = IF valid THEN ApplyWrites(ledger, p.writes)
                          ELSE ledger
            /\ UNCHANGED <<response, iterator>>
            /\ cast' = IF valid /\ p.op = "emitVote"
                       THEN cast \cup {p.args} ELSE cast
            /\ inflight' = [s \in Slots |->
                               IF s = slot THEN NoProposal
                               ELSE IF outdated(inflight[s])
                               THEN [inflight[s] EXCEPT !.stale = TRUE]
                               ELSE inflight[s]]

NextMvcc ==
    \/ EndorseInitContract
    \/ EndorseCreateVoter
    \/ EndorseEmitVote
    \/ Commit

SpecMvcc == Init /\ [][NextMvcc]_vars

\* The world state once initContract has stored the first event with its
\* elections and candidates, every put included, and createVoter has
\* registered each voter.
VotingLedger ==
    LET empty == [k \in Keys |-> NoState]
        initDataStr == Stringify([event |-> EventDatas[1],
                                  elections |-> ElectionDatas,
                                  candidates |-> CandidateDatas])
        initiated == ApplyWrites(empty,
                                 InitContract(empty, initDataStr,
                                              InitPending(initDataStr)).writes)
    IN  [k \in Keys |->
            IF k[1] = "voter"
            THEN CreateVoter(initiated, Stringify([id |-> k[2]])).writes[1].value
            ELSE initiated[k]]

InitVoting ==
    /\ ledger = VotingLedger
    /\ response = NoResponse
    /\ cast = {}
    /\ inflight = [s \in Slots |-> NoProposal]
    /\ iterator = NoIterator

NextVoting ==
    \/ EndorseEmitVote
    \/ Commit

\* The registered voters voting concurrently on the initialized contract.
SpecVoting == InitVoting /\ [][NextVoting]_vars

(* ------------------------ queryWithQueryString ------------------------ *)
(* The loop of queryWithQueryString step by step: getQueryResult opens an  *)
(* iterator, each next() either yields a document, reports the end, or     *)
(* fails; iterator holds the state of the ledger's query resource.         *)

\* The world states queried: the empty one, those initContract leaves with
\* any number of its un-awaited puts, and the one with the voters.
QueryLedgers ==
    LET empty == [k \in Keys |-> NoState]
        initDataStr == Stringify([event |-> EventDatas[1],
                                  elections |-> ElectionDatas,
                                  candidates |-> CandidateDatas])
    IN  {empty, VotingLedger}
        \cup {ApplyWrites(empty,
                          InitContract(empty, initDataStr, landed).writes) :
                 landed \in 0..InitPending(initDataStr)}

\* The selectors the handlers query with: queryByObjectType('event') of
\* initContract and validateInit, the candidates of an election of
\* getElectionResults, and the voters.
Selectors ==
    {[type |-> "event"], [type |-> "voter"]}
    \cup {[electionId |-> e, type |-> "votable"] : e \in ElectionIds}

ErrIterator == "the query iterator failed"

InitQuery ==
    /\ ledger \in QueryLedgers
    /\ response = NoResponse
    /\ cast = {}
    /\ inflight = [s \in Slots |-> NoProposal]
    /\ iterator = NoIterator

\* let resultsIterator = await ctx.stub.getQueryResult(queryString)
GetQueryResult ==
    /\ Idle
    /\ iterator = NoIterator
    /\ \E selector \in Selectors :
         iterator' = [state |-> "open", selector |-> selector,
                      hits |-> SelectSeq(KeySeq,
                                  LAMBDA k : /\ HasData(ledger[k])
                                             /\ Matches(ledger[k], selector)),
                      pos |-> 1, allResults |-> <<>>]
    /\ UNCHANGED <<ledger, response, cast, inflight>>

\* await resultsIterator.next() yields a document: it is pushed on
\* allResults and the loop goes on.
IteratorNextValue ==
    /\ Idle
    /\ iterator.state = "open"
    /\ iterator.pos <= Len(iterator.hits)
    /\ iterator' = [iterator EXCEPT
                       !.pos = @ + 1,
                       !.allResults =
                           Append(@, JsonRes(iterator.hits[iterator.pos],
                                             ledger[iterator.hits[iterator.pos]]))]
    /\ UNCHANGED <<ledger, response, cast, inflight>>

\* await resultsIterator.next() reports res.done: the iterator is closed
\* and allResults returned.
IteratorNextDone ==
    /\ Idle
    /\ iterator.state = "open"
    /\ iterator.pos > Len(iterator.hits)
    /\ iterator' = [iterator EXCEPT !.state = "closed"]
    /\ response' = [op |-> "queryWithQueryString",
                    args |-> [selector |-> iterator.selector],
                    err |-> NoError, ret |-> iterator.allResults,
                    writes |-> <<>>]
    /\ UNCHANGED <<ledger, cast, inflight>>

\* await resultsIterator.next() rejects: the exception leaves the loop,
\* queryWithQueryString and the handler that called it; no statement of
\* the code runs in between.
IteratorNextFails ==
    /\ Idle
    /\ iterator.state = "open"
    /\ response' = [op |-> "queryWithQueryString",
                    args |-> [selector |-> iterator.selector],
                    err |-> ErrIterator, ret |-> Undefined, writes |-> <<>>]
    /\ UNCHANGED <<ledger, cast, inflight, iterator>>

\* The client has its response and the transaction's resources are gone.
FinishQuery ==
    /\ ~Idle
    /\ response' = NoResponse
    /\ iterator' = NoIterator
    /\ UNCHANGED <<ledger, cast, inflight>>

NextQuery ==
    \/ GetQueryResult
    \/ IteratorNextValue
    \/ IteratorNextDone
    \/ IteratorNextFails
    \/ FinishQuery

SpecQuery == InitQuery /\ [][NextQuery]_vars

(* ----------------------- BoxtingVotingContract ------------------------ *)
(* The private-data contract (src/unnamed/part_000, lines 73-175).  Its   *)
(* world state is the implicit private collection of each organization:   *)
(* ledger maps <<collection, id>> to the stored bytes, and the public     *)
(* ledger holds the SHA-256 hash of those bytes, which any organization   *)
(* can read.  SHA-256 is taken to be free of collisions.                  *)

Orgs == {"one", "two"}

AssetIds == {"001", "002"}

\* Payload texts.
Payloads == {"125", "150"}

\* The UTF-8 bytes of a text.
Utf8(text) == [utf8 |-> text, valid |-> TRUE]

\* Bytes that are not the UTF-8 encoding of any text.
InvalidUtf8 == [utf8 |-> "ff", valid |-> FALSE]

\* Buffer.toString(): invalid bytes decode to the replacement character.
BytesToString(bytes) == IF bytes.valid THEN bytes.utf8 ELSE "U+FFFD"

\* A transient map is a set of [key, value] entries.
TransientHas(transientData, k) == \E e \in transientData : e.key = k

TransientGet(transientData, k) ==
    (CHOOSE e \in transientData : e.key = k).value

\* The transient maps tried: none, one under the expected key, one under
\* another key.
Transients ==
    {{}}
    \cup {{[key |-> "privateValue", value |-> b]} :
             b \in {Utf8(p) : p \in Payloads} \cup {InvalidUtf8}}
    \cup {{[key |-> "value", value |-> Utf8("125")]}}

\* The objects handed to verifyBoxtingVoting: one per payload, and one
\* carrying a second property.
ObjectsToVerify ==
    {[privateValue |-> p] : p \in Payloads}
    \cup {[privateValue |-> "125", value |-> "125"]}

\* One collection shared by every organization.
CollectionNameShared(mspid) == <<"_implicit_org_", "one">>

\* getCollectionName / the template of verifyBoxtingVoting.
CollectionName(mspid) == <<"_implicit_org_", mspid>>

PrivateKey(collectionName, id) == <<collectionName, id>>

PrivateKeys ==
    {PrivateKey(CollectionName(o), id) : o \in Orgs, id \in AssetIds}

EmptyBytes == [length |-> 0]

\* crypto's SHA-256 digest of a text, and the ledger's of stored bytes.
Sha256Constant(data) == [sha256 |-> "same"]

Sha256(data) == [sha256 |-> data]

\* digest('hex') / Buffer.toString('hex')
Hex(bytes) == [hex |-> bytes]

\* getPrivateDataHash: the hash of the stored bytes, empty when none.
GetPrivateDataHash(l, collectionName, id) ==
    IF HasData(l[PrivateKey(collectionName, id)])
    THEN Sha256(l[PrivateKey(collectionName, id)])
    ELSE EmptyBytes

ErrAssetExists == "The asset boxting voting already exists"

ErrAssetMissing == "The asset boxting voting does not exist"

ErrNoTransient ==
    "The privateValue key was not specified in transient data. Please try again."

ErrNoHash == "No private data hash with the Key"

\* boxtingVotingExists, for a caller of organization mspid.
BoxtingVotingExists(l, mspid, id) ==
    GetPrivateDataHash(l, CollectionName(mspid), id) # EmptyBytes

\* The asset stored under the property of the public contract.
PrivateAssetAsValue(privateValue) == [value |-> privateValue]

\* new BoxtingVoting() with its privateValue assigned.
PrivateAsset(privateValue) == [privateValue |-> privateValue]

\* The body createBoxtingVoting and updateBoxtingVoting share after their
\* existence test.
PutPrivateAsset(mspid, id, transientData) ==
    IF transientData = {} \/ ~TransientHas(transientData, "privateValue")
    THEN Throw(ErrNoTransient)
    ELSE Return(Undefined,
                <<Put(PrivateKey(CollectionName(mspid), id),
                      Stringify(PrivateAsset(BytesToString(
                          TransientGet(transientData, "privateValue")))))>>)

\* createBoxtingVoting looking at the transient map before the existence
\* test.
CreateTransientFirst(l, mspid, id, transientData) ==
    IF transientData = {} \/ ~TransientHas(transientData, "privateValue")
    THEN Throw(ErrNoTransient)
    ELSE IF BoxtingVotingExists(l, mspid, id) THEN Throw(ErrAssetExists)
    ELSE PutPrivateAsset(mspid, id, transientData)

CreateBoxtingVoting(l, mspid, id, transientData) ==
    IF BoxtingVotingExists(l, mspid, id) THEN Throw(ErrAssetExists)
    ELSE PutPrivateAsset(mspid, id, transientData)

\* readBoxtingVoting returning the stored text without JSON.parse.
ReadUnparsed(l, mspid, id) ==
    IF ~BoxtingVotingExists(l, mspid, id) THEN Throw(ErrAssetMissing)
    ELSE Return(l[PrivateKey(CollectionName(mspid), id)], <<>>)

ReadBoxtingVoting(l, mspid, id) ==
    IF ~BoxtingVotingExists(l, mspid, id) THEN Throw(ErrAssetMissing)
    ELSE Return(Parse(l[PrivateKey(CollectionName(mspid), id)]), <<>>)

\* updateBoxtingVoting without its existence test.
UpdateUnguarded(l, mspid, id, transientData) ==
    PutPrivateAsset(mspid, id, transientData)

UpdateBoxtingVoting(l, mspid, id, transientData) ==
    IF ~BoxtingVotingExists(l, mspid, id) THEN Throw(ErrAssetMissing)
    ELSE PutPrivateAsset(mspid, id, transientData)

\* deleteBoxtingVoting answering without the deletion.
DeleteKeeps(l, mspid, id) ==
    IF ~BoxtingVotingExists(l, mspid, id) THEN Throw(ErrAssetMissing)
    ELSE Return(Undefined, <<>>)

DeleteBoxtingVoting(l, mspid, id) ==
    IF ~BoxtingVotingExists(l, mspid, id) THEN Throw(ErrAssetMissing)
    ELSE Return(Undefined,
                <<Put(PrivateKey(CollectionName(mspid), id), NoState)>>)

\* verifyBoxtingVoting without the test for an empty hash.
VerifyUnguarded(l, mspid, id, objectToVerify) ==
    Return(Hex(Sha256(Stringify(objectToVerify)))
             = Hex(GetPrivateDataHash(l, CollectionName(mspid), id)),
           <<>>)

VerifyBoxtingVoting(l, mspid, id, objectToVerify) ==
    LET hashToVerify == Hex(Sha256(Stringify(objectToVerify)))
        pdHashBytes == GetPrivateDataHash(l, CollectionName(mspid), id)
        actualHash == Hex(pdHashBytes)
    IN  IF pdHashBytes = EmptyBytes THEN Throw(ErrNoHash)
        ELSE Return(hashToVerify = actualHash, <<>>)

InitPrivate ==
    /\ ledger = [k \in PrivateKeys |-> NoState]
    /\ response = NoResponse
    /\ cast = {}
    /\ inflight = [s \in Slots |-> NoProposal]
    /\ iterator = NoIterator

BoxtingVotingExistsTx ==
    /\ Idle
    /\ \E mspid \in Orgs, id \in AssetIds :
         Respond("boxtingVotingExists", [mspid |-> mspid, id |-> id],
                 Return(BoxtingVotingExists(ledger, mspid, id), <<>>))
    /\ UNCHANGED <<cast, inflight, iterator>>

CreateBoxtingVotingTx ==
    /\ Idle
    /\ \E mspid \in Orgs, id \in AssetIds, transientData \in Transients :
         Respond("createBoxtingVoting",
                 [mspid |-> mspid, id |-> id, transientData |-> transientData],
                 CreateBoxtingVoting(ledger, mspid, id, transientData))
    /\ UNCHANGED <<cast, inflight, iterator>>

ReadBoxtingVotingTx ==
    /\ Idle
    /\ \E mspid \in Orgs, id \in AssetIds :
         Respond("readBoxtingVoting", [mspid |-> mspid, id |-> id],
                 ReadBoxtingVoting(ledger, mspid, id))
    /\ UNCHANGED <<cast, inflight, iterator>>

UpdateBoxtingVotingTx ==
    /\ Idle
    /\ \E mspid \in Orgs, id \in AssetIds, transientData \in Transients :
         Respond("updateBoxtingVoting",
                 [mspid |-> mspid, id |-> id, transientData |-> transientData],
                 UpdateBoxtingVoting(ledger, mspid, id, transientData))
    /\ UNCHANGED <<cast, inflight, iterator>>

DeleteBoxtingVotingTx ==
    /\ Idle
    /\ \E mspid \in Orgs, id \in AssetIds :
         Respond("deleteBoxtingVoting", [mspid |-> mspid, id |-> id],
                 DeleteBoxtingVoting(ledger, mspid, id))
    /\ UNCHANGED <<cast, inflight, iterator>>

\* A caller of any organization may verify against the collection of any
\* organization: mspid is an argument, the caller's identity is not read.
VerifyBoxtingVotingTx ==
    /\ Idle
    /\ \E caller \in Orgs, mspid \in Orgs, id \in AssetIds,
          objectToVerify \in ObjectsToVerify :
         Respond("verifyBoxtingVoting",
                 [caller |-> caller, mspid |-> mspid, id |-> id,
                  objectToVerify |-> objectToVerify],
                 VerifyBoxtingVoting(ledger, mspid, id, objectToVerify))
    /\ UNCHANGED <<cast, inflight, iterator>>

NextPrivate ==
    \/ BoxtingVotingExistsTx
    \/ CreateBoxtingVotingTx
    \/ ReadBoxtingVotingTx
    \/ UpdateBoxtingVotingTx
    \/ DeleteBoxtingVotingTx
    \/ VerifyBoxtingVotingTx
    \/ Deliver

SpecPrivate == InitPrivate /\ [][NextPrivate]_vars

(* ------------------------- reading the ledger ------------------------- *)

\* The keys that hold a record of the given type.
KeysOfType(type) == {k \in Keys : ledger[k].type = type}

\* The keys of the Vote records of voter v in election e.
VoteKeys(v, e) ==
    {k \in KeysOfType("vote") :
        ledger[k].voterId = v /\ ledger[k].electionId = e}

\* Whether an Event record is on the ledger.
Initialized == KeysOfType("event") # {}

\* Whether the history holds a successful emitVote of voter v in election e.
HasCast(e, v) == \E c \in cast : c.electionId = e /\ c.voterId = v

\* The Event record initContract stored.
StoredEvent == ledger[CHOOSE k \in KeysOfType("event") : TRUE]

\* now lies outside [startDate, endDate) of the stored Event.
OutsideWindow(now) ==
    \/ now < DateGetTime(StoredEvent.startDate)
    \/ now >= DateGetTime(StoredEvent.endDate)

\* now lies before the endDate of the stored Event.
BeforeEnd(now) == now < DateGetTime(StoredEvent.endDate)

\* The candidate ids of an emitVote argument that is JSON text.
ListOf(args) == Parse(args.candidateIds)

\* On world state l the election and the voter of args exist and the voter
\* has not voted in the election.
VoterMayVote(l, args) ==
    /\ HasData(l[Key("election", args.electionId)])
    /\ HasData(l[Key("voter", args.voterId)])
    /\ ~Includes(Parse(l[Key("voter", args.voterId)].votedElectionIds),
                 args.electionId)

\* On world state l candidate id c names a record of another election.
Foreign(l, c, electionId) ==
    /\ HasData(l[Key("candidate", c)])
    /\ l[Key("candidate", c)].electionId # electionId

\* On world state l args is a well-formed ballot: as many candidates as the
\* election's maxVotes, each existing and of the election.
BallotFits(l, args) ==
    /\ Parses(args.candidateIds)
    /\ Len(ListOf(args)) = l[Key("election", args.electionId)].maxVotes
    /\ \A i \in 1..Len(ListOf(args)) :
          /\ HasData(l[Key("candidate", ListOf(args)[i])])
          /\ ~Foreign(l, ListOf(args)[i], args.electionId)

(* ------------------------------- claims ------------------------------- *)

\* C1: after any sequence of initContract, createVoter and emitVote
\* transactions, for every voter v and election e the ledger holds at most
\* one Vote record with voterId = v and electionId = e.
C1_AtMostOneVote ==
    \A v \in VoterIds, e \in ElectionIds : Cardinality(VoteKeys(v, e)) <= 1

\* Two Vote records are on the ledger and a further emitVote of a voter who
\* holds one of them has just been refused.
C1_Witness ==
    /\ Cardinality(KeysOfType("vote")) = 2
    /\ response.op = "emitVote"
    /\ response.err = ErrAlreadyVoted
    /\ VoteKeys(response.args.voterId, response.args.electionId) # {}

\* C2: once emitVote(e, v, ...) has succeeded, every later emitVote for the
\* same (e, v), with any candidate list and at any time, fails with the
\* already-voted error and leaves the ledger (voter, Vote and candidate
\* records) unchanged.
C2_RepeatVoteRefused ==
    [][(/\ response'.op = "emitVote"
        /\ HasCast(response'.args.electionId, response'.args.voterId))
       => (/\ response'.err = ErrAlreadyVoted
           /\ response'.writes = <<>>
           /\ ledger' = ledger)]_vars

\* A repeat vote with a candidate list other than the one cast, refused.
C2_Witness ==
    /\ response.op = "emitVote"
    /\ response.err = ErrAlreadyVoted
    /\ \E c \in cast :
         /\ c.electionId = response.args.electionId
         /\ c.voterId = response.args.voterId
         /\ c.candidateIds # response.args.candidateIds

\* C3 as claimed: after one initContract has succeeded, every later
\* initContract call fails with the already-initiated error regardless of
\* its payload, and writes nothing.
C3_LaterInitAlreadyInitiated ==
    [][(response'.op = "initContract" /\ Initialized)
       => (/\ response'.err = ErrAlreadyInitiated
           /\ response'.writes = <<>>
           /\ ledger' = ledger)]_vars

\* C3 as amended: after one initContract has succeeded, every later
\* initContract call fails and writes nothing; the error is the
\* already-initiated error for every argument that is JSON text (whatever
\* event id or lists it carries) and the SyntaxError of JSON.parse for an
\* argument that is not.
C3_LaterInitFails ==
    [][(response'.op = "initContract" /\ Initialized)
       => (/\ response'.err = IF Parses(response'.args.initDataStr)
                              THEN ErrAlreadyInitiated ELSE ErrSyntax
           /\ response'.writes = <<>>
           /\ ledger' = ledger)]_vars

\* A second initContract whose payload names another event id and lists no
\* election, refused as already initiated.
C3_Witness ==
    /\ response.op = "initContract"
    /\ response.err = ErrAlreadyInitiated
    /\ LET initData == Parse(response.args.initDataStr)
       IN  /\ initData.elections = <<>>
           /\ ~HasData(ledger[Key("event", initData.event.id)])
           /\ Initialized

\* C4: on an initialized ledger, emitVote invoked at a time now with
\* now < event.startDate or now >= event.endDate (the dates of the Event
\* record initContract stored) always fails with the not-available error
\* and writes nothing.  Stated for the calls whose other preconditions are
\* all met, where the answer decides whether a ballot is cast.
C4_NoVoteOutsideWindow ==
    [][(/\ response'.op = "emitVote"
        /\ Initialized
        /\ VoterMayVote(ledger, response'.args)
        /\ BallotFits(ledger, response'.args)
        /\ OutsideWindow(response'.args.now))
       => (/\ response'.err = ErrNotAvailable
           /\ response'.writes = <<>>
           /\ ledger' = ledger)]_vars

\* C5: on an initialized ledger, readCandidate(id) invoked at a time
\* now < event.endDate fails with the not-finished error.  Stated for the
\* ids of stored candidates, where the answer decides whether a record is
\* disclosed.
C5_NoCandidateBeforeEnd ==
    (/\ response.op = "readCandidate"
     /\ Initialized
     /\ HasData(ledger[Key("candidate", response.args.candidateId)])
     /\ BeforeEnd(response.args.now))
    => response.err = ErrNotFinished

\* C6: getElectionResults(e) never returns candidate data while
\* now < event.endDate: it fails with the not-finished error.  Stated for
\* stored elections, where the answer decides whether records are disclosed.
C6_NoResultsBeforeEnd ==
    (/\ response.op = "getElectionResults"
     /\ Initialized
     /\ HasData(ledger[Key("election", response.args.electionId)])
     /\ BeforeEnd(response.args.now))
    => response.err = ErrNotFinished

\* The emitVote just answered named a stored election and carried a parsed
\* list whose length is not the election's maxVotes.
WrongCountCall ==
    /\ response.op = "emitVote"
    /\ HasData(ledger[Key("election", response.args.electionId)])
    /\ Parses(response.args.candidateIds)
    /\ Len(ListOf(response.args))
         # ledger[Key("election", response.args.electionId)].maxVotes

\* C7 as claimed: emitVote with a candidate list whose length differs from
\* the stored election's maxVotes always fails with the wrong-number error
\* and issues no ledger write.
C7_WrongCountAlwaysBadRequest ==
    WrongCountCall => (response.err = ErrWrongCount /\ response.writes = <<>>)

\* C7 as amended: emitVote with a candidate list whose length differs from
\* the stored election's maxVotes always fails and issues no ledger write;
\* the error is the wrong-number error when every earlier check passes (the
\* window test, the voter exists and has not voted in the election), and the
\* error of the earlier check otherwise.
C7_WrongCountFails ==
    WrongCountCall =>
        /\ response.err # NoError
        /\ response.writes = <<>>
        /\ (/\ IsVotingOpen(ValidateInit(ledger).event, response.args.now)
            /\ VoterMayVote(ledger, response.args))
           => response.err = ErrWrongCount

\* An empty list refused with the wrong-number error while a Vote record of
\* an earlier ballot is on the ledger.
C7_Witness ==
    /\ WrongCountCall
    /\ ListOf(response.args) = <<>>
    /\ response.err = ErrWrongCount
    /\ KeysOfType("vote") # {}

\* The positions of the parsed list that name a stored candidate of another
\* election.
ForeignAt ==
    {i \in 1..Len(ListOf(response.args)) :
        Foreign(ledger, ListOf(response.args)[i], response.args.electionId)}

\* The emitVote just answered carried a parsed list naming, at some position,
\* a stored candidate of another election.
ForeignCall ==
    /\ response.op = "emitVote"
    /\ Parses(response.args.candidateIds)
    /\ ForeignAt # {}

\* C8 as claimed: emitVote whose candidate list contains, at any position,
\* an existing candidate of another election always fails with the
\* does-not-belong error and writes nothing.
C8_ForeignAlwaysBadRequest ==
    ForeignCall => (response.err = ErrNotBelong /\ response.writes = <<>>)

\* C8 as amended: emitVote whose candidate list contains, at any position,
\* an existing candidate of another election always fails and writes
\* nothing, even when all other listed candidates belong to the election;
\* the error is the does-not-belong error when every earlier check passes
\* (the window test, election and voter exist, the voter has not voted in
\* the election, the list has maxVotes entries, and every candidate listed
\* before the first foreign one exists), and the error of the earlier check
\* otherwise.
C8_ForeignFails ==
    ForeignCall =>
        /\ response.err # NoError
        /\ response.writes = <<>>
        /\ (/\ IsVotingOpen(ValidateInit(ledger).event, response.args.now)
            /\ VoterMayVote(ledger, response.args)
            /\ Len(ListOf(response.args))
                 = ledger[Key("election", response.args.electionId)].maxVotes
            /\ \A j \in 1..Len(ListOf(response.args)) :
                 (\A i \in ForeignAt : j < i)
                    => HasData(ledger[Key("candidate",
                                          ListOf(response.args)[j])]))
           => response.err = ErrNotBelong

\* A two-candidate ballot refused as does-not-belong whose first candidate
\* is of the election and whose second is not.
C8_Witness ==
    /\ ForeignCall
    /\ ForeignAt = {2}
    /\ HasData(ledger[Key("candidate", ListOf(response.args)[1])])
    /\ response.err = ErrNotBelong

\* C9: in every reachable ledger state, for every voter v and election e,
\* e is in v.votedElectionIds if and only if a Vote record with voterId = v
\* and electionId = e exists.
C9_VotedIffVoteRecord ==
    \A v \in VoterIds, e \in ElectionIds :
        (/\ HasData(ledger[Key("voter", v)])
         /\ Includes(Parse(ledger[Key("voter", v)].votedElectionIds), e))
        <=> VoteKeys(v, e) # {}

\* The ids of the candidate snapshots in the selectedCandidates of a Vote.
SelectedIds(vote) ==
    LET snapshots == Parse(vote.selectedCandidates)
    IN  [i \in 1..Len(snapshots) |-> snapshots[i].id]

\* C10: after emitVote(e, v, [c1..ck]) succeeds, readVote(e, v) succeeds and
\* returns a Vote whose voterId is v, electionId is e and whose
\* selectedCandidates are the snapshots of c1..ck in the submitted order,
\* also after further successful votes.
C10_ReadVoteReturnsBallot ==
    \A c \in cast :
        LET r == ReadVote(ledger, c.electionId, c.voterId)
        IN  /\ r.err = NoError
            /\ GetProp(r.ret, "voterId") = c.voterId
            /\ GetProp(r.ret, "electionId") = c.electionId
            /\ SelectedIds(r.ret) = Parse(c.candidateIds)

\* C11: readVote(e, v) on an initialized ledger with existing election e
\* and voter v fails with 'has not voted yet' when v's voted-set is empty,
\* fails with 'has not voted yet on this election' when v has voted only in
\* other elections, and succeeds exactly when v has voted in e.
C11_ReadVoteOutcome ==
    (/\ response.op = "readVote"
     /\ Initialized
     /\ HasData(ledger[Key("election", response.args.electionId)])
     /\ HasData(ledger[Key("voter", response.args.voterId)]))
    => LET voted == Parse(ledger[Key("voter", response.args.voterId)]
                              .votedElectionIds)
           inE == Includes(voted, response.args.electionId)
       IN  /\ voted = <<>> => response.err = ErrNotVotedYet
           /\ (voted # <<>> /\ ~inE) => response.err = ErrNotVotedHere
           /\ inE <=> response.err = NoError

C13_EmitVoteDeterministic ==
    [][response'.op = "emitVote"
       => \A now2 \in Times, rnd2 \in VoteIds :
            LET again == EmitVote(ledger, response'.args.electionId,
                                  response'.args.voterId,
                                  response'.args.candidateIds, now2, rnd2)
            IN  /\ again.err = response'.err
                /\ again.writes = response'.writes]_vars

\* C14: when initContract returns success, the Event, every Election of the
\* payload and every VotableItem of the payload have been written, in that
\* order; no write is still pending.
C14_InitWritesComplete ==
    (response.op = "initContract" /\ response.err = NoError)
    => LET initData == Parse(response.args.initDataStr)
           expected == <<Key("event", initData.event.id)>>
                       \o [i \in 1..Len(initData.elections) |->
                              Key("election", initData.elections[i].id)]
                       \o [i \in 1..Len(initData.candidates) |->
                              Key("candidate", initData.candidates[i].id)]
       IN  [i \in 1..Len(response.writes) |-> response.writes[i].key]
             = expected

\* C15: every handler invocation either succeeds with all of its writes
\* applied or fails with none applied; after an initContract that reported
\* success the ledger holds the Event and every election and candidate of
\* the payload (no Event with elections or candidates missing).
C15_InitAllOrNothing ==
    /\ (response.op # "none" /\ response.err # NoError)
       => response.writes = <<>>
    /\ (response.op = "initContract" /\ response.err = NoError)
       => LET initData == Parse(response.args.initDataStr)
          IN  /\ HasData(ledger[Key("event", initData.event.id)])
              /\ \A i \in 1..Len(initData.elections) :
                   HasData(ledger[Key("election", initData.elections[i].id)])
              /\ \A i \in 1..Len(initData.candidates) :
                   HasData(ledger[Key("candidate",
                                      initData.candidates[i].id)])

\* C16: under the commit-time check of read versions, two emitVote
\* transactions for the same voter and election simulated against the same
\* ledger snapshot never both commit: an emitVote takes effect only on a
\* ledger where the voter has not voted in the election, and at most one
\* Vote of the voter in the election results.
C16_ConcurrentVotesExclude ==
    [][/\ \A slot \in Slots :
            (/\ inflight[slot].op = "emitVote"
             /\ inflight'[slot] = NoProposal
             /\ ledger' # ledger)
            => ~Includes(
                   Parse(ledger[Key("voter", inflight[slot].args.voterId)]
                             .votedElectionIds),
                   inflight[slot].args.electionId)
       /\ \A v \in VoterIds, e \in ElectionIds :
            Cardinality(VoteKeys(v, e))' <= 1]_vars

\* An emitVote in flight whose voter has, since its simulation, voted in
\* the same election through a concurrent emitVote that committed.
C16_Witness ==
    \E slot \in Slots :
        /\ inflight[slot].op = "emitVote"
        /\ inflight[slot].stale
        /\ HasCast(inflight[slot].args.electionId,
                   inflight[slot].args.voterId)
        /\ VoteKeys(inflight[slot].args.voterId,
                    inflight[slot].args.electionId) # {}

\* C17: in every reachable ledger state at most one Event record exists,
\* also when two initContract transactions with different event ids are
\* simulated against the same uninitialized snapshot.
C17_AtMostOneEvent == Cardinality(KeysOfType("event")) <= 1

\* The private-collection key a response is about.
ResponseKey ==
    PrivateKey(CollectionName(response.args.mspid), response.args.id)

\* C18: after createBoxtingVoting(id) with transient privateValue = P by a
\* caller of organization org, verifyBoxtingVoting(org, id,
\* {privateValue: P}) returns true, for any payload text P and id.
C18_CommitVerifyRoundTrip ==
    \A P \in Payloads :
        (/\ response.op = "createBoxtingVoting"
         /\ response.err = NoError
         /\ response.args.transientData
              = {[key |-> "privateValue", value |-> Utf8(P)]})
        => LET r == VerifyBoxtingVoting(ledger, response.args.mspid,
                                        response.args.id,
                                        [privateValue |-> P])
           IN  r.err = NoError /\ r.ret = TRUE

\* A payload committed under an id that holds another payload in the other
\* organization's collection.
C18_Witness ==
    /\ response.op = "createBoxtingVoting"
    /\ response.err = NoError
    /\ TransientGet(response.args.transientData, "privateValue").valid
    /\ \E o \in Orgs \ {response.args.mspid} :
         /\ HasData(ledger[PrivateKey(CollectionName(o), response.args.id)])
         /\ ledger[PrivateKey(CollectionName(o), response.args.id)]
              # ledger[ResponseKey]

\* C19: verifyBoxtingVoting on an id that has a stored hash, called with an
\* object whose payload differs from the stored payload, returns false as
\* a normal result and changes no state.
C19_MismatchReturnsFalse ==
    [][(/\ response'.op = "verifyBoxtingVoting"
        /\ HasData(ledger[ResponseKey'])
        /\ response'.args.objectToVerify.privateValue
             # Parse(ledger[ResponseKey']).privateValue)
       => (/\ response'.err = NoError
           /\ response'.ret = FALSE
           /\ response'.writes = <<>>
           /\ ledger' = ledger)]_vars

\* A verification answered false for an id that holds a payload.
C19_Witness ==
    /\ response.op = "verifyBoxtingVoting"
    /\ response.err = NoError
    /\ response.ret = FALSE
    /\ HasData(ledger[ResponseKey])
    /\ response.args.objectToVerify \in {[privateValue |-> p] : p \in Payloads}

\* C20: verifyBoxtingVoting for an (organization, id) pair with no stored
\* private-data hash always fails with the no-hash error, whatever object
\* is supplied; it never returns false.
C20_NoHashNotFound ==
    (response.op = "verifyBoxtingVoting" /\ ~HasData(ledger[ResponseKey]))
    => response.err = ErrNoHash

\* A verification refused for an id that the named organization does not
\* hold while the other organization holds it.
C20_Witness ==
    /\ response.op = "verifyBoxtingVoting"
    /\ response.err = ErrNoHash
    /\ \E o \in Orgs \ {response.args.mspid} :
         HasData(ledger[PrivateKey(CollectionName(o), response.args.id)])

\* The transient map of the response carries no privateValue entry.
LacksPrivateValue(transientData) ==
    transientData = {} \/ \A e \in transientData : e.key # "privateValue"

\* The text a transient map submits under privateValue.
SubmittedText(transientData) ==
    BytesToString((CHOOSE e \in transientData : e.key = "privateValue").value)

\* Every private key but k holds in ledger' what it holds in ledger.
OthersUnchanged(k) == \A o \in PrivateKeys \ {k} : ledger'[o] = ledger[o]

\* C21: createBoxtingVoting(id) fails with the already-exists error when the
\* caller's collection holds a record for id, whatever the transient map
\* contains; otherwise it fails with the missing-key error when the
\* transient map is empty or lacks privateValue; otherwise it writes exactly
\* one record {privateValue} under id in the caller's collection. Both
\* failures write nothing.
C21_CreateOutcome ==
    [][response'.op = "createBoxtingVoting"
       => LET k == ResponseKey'
              t == response'.args.transientData
          IN  IF HasData(ledger[k])
              THEN /\ response'.err = ErrAssetExists
                   /\ response'.writes = <<>>
                   /\ ledger' = ledger
              ELSE IF LacksPrivateValue(t)
              THEN /\ response'.err = ErrNoTransient
                   /\ response'.writes = <<>>
                   /\ ledger' = ledger
              ELSE /\ response'.err = NoError
                   /\ Len(response'.writes) = 1
                   /\ response'.writes[1].key = k
                   /\ Parses(ledger'[k])
                   /\ DOMAIN Parse(ledger'[k]) = {"privateValue"}
                   /\ Parse(ledger'[k]).privateValue = SubmittedText(t)
                   /\ OthersUnchanged(k)]_vars

\* A create refused as already existing although its transient map holds
\* no privateValue.
C21_Witness ==
    /\ response.op = "createBoxtingVoting"
    /\ response.err = ErrAssetExists
    /\ LacksPrivateValue(response.args.transientData)

\* C22: updateBoxtingVoting(id) fails with the does-not-exist error when the
\* caller's collection holds no record for id; it fails with the missing-key
\* error when the transient map lacks privateValue, leaving the stored
\* record unchanged; otherwise it replaces the record, so that afterwards
\* verification succeeds for the new payload and returns false for the old
\* payload it replaced.
C22_UpdateOutcome ==
    [][response'.op = "updateBoxtingVoting"
       => LET k == ResponseKey'
              a == response'.args
              t == a.transientData
              old == Parse(ledger[k])
          IN  IF ~HasData(ledger[k])
              THEN /\ response'.err = ErrAssetMissing
                   /\ ledger' = ledger
              ELSE IF LacksPrivateValue(t)
              THEN /\ response'.err = ErrNoTransient
                   /\ ledger' = ledger
              ELSE /\ response'.err = NoError
                   /\ OthersUnchanged(k)
                   /\ VerifyBoxtingVoting(ledger', a.mspid, a.id,
                          [privateValue |-> SubmittedText(t)])
                        = Return(TRUE, <<>>)
                   /\ old.privateValue # SubmittedText(t)
                        => VerifyBoxtingVoting(ledger', a.mspid, a.id, old)
                             = Return(FALSE, <<>>)]_vars

\* An update that replaced a payload by a different one.
C22_Witness ==
    /\ response.op = "updateBoxtingVoting"
    /\ response.err = NoError
    /\ \E p \in Payloads :
         /\ ledger[ResponseKey] = Stringify(PrivateAsset(p))
         /\ \E q \in Payloads \ {p} :
              VerifyBoxtingVoting(ledger, response.args.mspid,
                  response.args.id, PrivateAsset(q)) = Return(FALSE, <<>>)

\* C23: deleteBoxtingVoting(id) fails with the does-not-exist error and
\* deletes nothing when the caller's collection holds no record for id; when
\* one exists it deletes it from the caller's collection, after which
\* boxtingVotingExists(id) is false, read, update and delete of id fail with
\* the does-not-exist error, and a new create of id succeeds.
C23_DeleteOutcome ==
    [][response'.op = "deleteBoxtingVoting"
       => LET k == ResponseKey'
              a == response'.args
          IN  IF ~HasData(ledger[k])
              THEN /\ response'.err = ErrAssetMissing
                   /\ ledger' = ledger
              ELSE /\ response'.err = NoError
                   /\ OthersUnchanged(k)
                   /\ ~BoxtingVotingExists(ledger', a.mspid, a.id)
                   /\ ReadBoxtingVoting(ledger', a.mspid, a.id).err
                        = ErrAssetMissing
                   /\ DeleteBoxtingVoting(ledger', a.mspid, a.id).err
                        = ErrAssetMissing
                   /\ \A t \in Transients :
                        /\ UpdateBoxtingVoting(ledger', a.mspid, a.id, t).err
                             = ErrAssetMissing
                        /\ ~LacksPrivateValue(t)
                             => CreateBoxtingVoting(ledger', a.mspid, a.id, t)
                                  .err = NoError]_vars

\* A deletion carried out while the other organization keeps a record under
\* the same id.
C23_Witness ==
    /\ response.op = "deleteBoxtingVoting"
    /\ response.err = NoError
    /\ ~HasData(ledger[ResponseKey])
    /\ \E o \in Orgs \ {response.args.mspid} :
         HasData(ledger[PrivateKey(CollectionName(o), response.args.id)])

\* C24: readBoxtingVoting(id) fails with the does-not-exist error when the
\* caller's collection holds no record for id; otherwise it returns the
\* record most recently stored for id by create or update in that
\* collection: a create or update that stored P is read back as
\* {privateValue: P}, a read returns the stored record and changes nothing,
\* and only create, update and delete of that id by that organization change
\* what is stored.
C24_ReadReturnsLastStored ==
    [][/\ (response'.op \in {"createBoxtingVoting", "updateBoxtingVoting"}
           /\ response'.err = NoError)
          => ReadBoxtingVoting(ledger', response'.args.mspid,
                               response'.args.id)
               = Return([privateValue |->
                            SubmittedText(response'.args.transientData)],
                        <<>>)
       /\ response'.op = "readBoxtingVoting"
          => /\ ledger' = ledger
             /\ IF ~HasData(ledger[ResponseKey'])
                THEN response'.err = ErrAssetMissing
                ELSE /\ response'.err = NoError
                     /\ Stringify(response'.ret) = ledger[ResponseKey']
       /\ \A k \in PrivateKeys :
            ledger'[k] # ledger[k]
            => /\ response'.op \in {"createBoxtingVoting",
                                    "updateBoxtingVoting",
                                    "deleteBoxtingVoting"}
               /\ ResponseKey' = k]_vars

\* A read that returned one payload while the other organization holds a
\* different payload under the same id.
C24_Witness ==
    /\ response.op = "readBoxtingVoting"
    /\ response.err = NoError
    /\ \E o \in Orgs \ {response.args.mspid} :
         LET other == ledger[PrivateKey(CollectionName(o), response.args.id)]
         IN  HasData(other) /\ Parse(other) # response.ret

\* The positions of the list of args whose candidate is missing or of
\* another election on world state l.
BadCandidateAt(l, args) ==
    {i \in 1..Len(ListOf(args)) :
        \/ ~HasData(l[Key("candidate", ListOf(args)[i])])
        \/ Foreign(l, ListOf(args)[i], args.electionId)}

\* The error of the first bad candidate in list order: missing before not
\* belonging.
FirstCandidateError(l, args) ==
    LET i == CHOOSE b \in BadCandidateAt(l, args) :
                 \A o \in BadCandidateAt(l, args) : b <= o
    IN  IF ~HasData(l[Key("candidate", ListOf(args)[i])])
        THEN ErrCandidateMissing ELSE ErrNotBelong

\* The outcome the documented order of checks gives emitVote(args) on the
\* current ledger, for a list that parses.
FirstFailingCheck(args) ==
    IF ~Initialized THEN ErrNotInitiated
    ELSE IF OutsideWindow(args.now) THEN ErrNotAvailable
    ELSE IF ~HasData(ledger[Key("election", args.electionId)])
    THEN ErrElectionMissing
    ELSE IF ~HasData(ledger[Key("voter", args.voterId)]) THEN ErrVoterMissing
    ELSE IF ~VoterMayVote(ledger, args) THEN ErrAlreadyVoted
    ELSE IF Len(ListOf(args))
              # ledger[Key("election", args.electionId)].maxVotes
    THEN ErrWrongCount
    ELSE IF BadCandidateAt(ledger, args) # {}
    THEN FirstCandidateError(ledger, args)
    ELSE NoError

\* C25: emitVote reports the first failing check in the order: contract not
\* initialized; voting window closed; election missing; voter missing;
\* already voted; candidate count differs; then per candidate in list order,
\* candidate missing before candidate not belonging to the election.
C25_FirstFailingCheck ==
    [][(response'.op = "emitVote" /\ Parses(response'.args.candidateIds))
       => response'.err = FirstFailingCheck(response'.args)]_vars

\* The handlers that begin with validateInit and are named by C26.
InitGuardedOps ==
    {"emitVote", "readCandidate", "getElectionResults", "readVote"}

\* C26: before any successful initContract, emitVote, readCandidate,
\* getElectionResults and readVote each fail with the not-initialized error
\* for all arguments and times and write nothing; a successful initContract
\* leaves an Event on the ledger, the Event stays, and from then on none of
\* the four fails with the not-initialized error.
C26_InitGate ==
    [][/\ Initialized => Initialized'
       /\ (response'.op = "initContract" /\ response'.err = NoError)
          => (~Initialized /\ Initialized')
       /\ response'.op \in InitGuardedOps
          => IF ~Initialized
             THEN /\ response'.err = ErrNotInitiated
                  /\ response'.writes = <<>>
                  /\ ledger' = ledger
             ELSE response'.err # ErrNotInitiated]_vars

\* An emitVote refused as not initialized for a voter that is registered.
C26_Witness ==
    /\ response.op = "emitVote"
    /\ response.err = ErrNotInitiated
    /\ HasData(ledger[Key("voter", response.args.voterId)])
    /\ Parses(response.args.candidateIds)

\* On world state l voter v is recorded as having voted in election e.
VotedIn(l, v, e) ==
    /\ HasData(l[Key("voter", v)])
    /\ Includes(Parse(l[Key("voter", v)].votedElectionIds), e)

\* C27: once election e is in v.votedElectionIds it remains there in every
\* later ledger state, whatever transactions follow.
C27_VotedStaysVoted ==
    [][\A v \in VoterIds, e \in ElectionIds :
          VotedIn(ledger, v, e) => VotedIn(ledger', v, e)]_vars

\* A voter recorded as having voted in two elections: the first entry
\* outlived the second vote.
C27_Witness ==
    \E v \in VoterIds :
       /\ HasData(ledger[Key("voter", v)])
       /\ Len(Parse(ledger[Key("voter", v)].votedElectionIds)) = 2
       /\ \A e \in ElectionIds : VotedIn(ledger, v, e) /\ HasCast(e, v)

\* C28: checkVoteElection(e, v) issues no write in any outcome; it fails
\* with a not-found error when election e or voter v is missing, the
\* election first; otherwise it returns true exactly when an earlier
\* emitVote for (e, v) succeeded.
C28_CheckVoteElection ==
    [][response'.op = "checkVoteElection"
       => LET a == response'.args
          IN  /\ response'.writes = <<>>
              /\ ledger' = ledger
              /\ IF ~HasData(ledger[Key("election", a.electionId)])
                 THEN response'.err = ErrElectionMissing
                 ELSE IF ~HasData(ledger[Key("voter", a.voterId)])
                 THEN response'.err = ErrVoterMissing
                 ELSE /\ response'.err = NoError
                      /\ response'.ret = HasCast(a.electionId, a.voterId)]_vars

\* checkVoteElection answered false for a voter who has voted in another
\* election.
C28_Witness ==
    /\ response.op = "checkVoteElection"
    /\ response.err = NoError
    /\ response.ret = FALSE
    /\ \E e \in ElectionIds : HasCast(e, response.args.voterId)

\* C29: every Vote record in every reachable state has as many
\* selectedCandidates as the maxVotes of the election it names, and every
\* snapshot's electionId equals the Vote's electionId.
C29_VoteShape ==
    \A k \in KeysOfType("vote") :
       LET vote == ledger[k]
           snapshots == Parse(vote.selectedCandidates)
           election == ledger[Key("election", vote.electionId)]
       IN  /\ HasData(election)
           /\ Len(snapshots) = election.maxVotes
           /\ \A i \in 1..Len(snapshots) :
                 snapshots[i].electionId = vote.electionId

\* A Vote record of an election with maxVotes 2 holding two snapshots.
C29_Witness ==
    \E k \in KeysOfType("vote") :
       /\ Len(Parse(ledger[k].selectedCandidates)) = 2
       /\ ledger[Key("election", ledger[k].electionId)].maxVotes = 2

\* The keys of Event, Election and VotableItem records.
SetupKeys == {k \in Keys : k[1] \in {"event", "election", "candidate"}}

\* The keys a response wrote.
ResponseWrote(r) == {r.writes[i].key : i \in 1..Len(r.writes)}

\* C30: after a successful initContract no transaction changes or deletes
\* an Event, Election or VotableItem record: createVoter writes only a voter
\* key, and emitVote writes only the voter key of its voter and one vote
\* key.
C30_SetupImmutable ==
    [][/\ Initialized => \A k \in SetupKeys : ledger'[k] = ledger[k]
       /\ (response'.op = "createVoter" /\ response'.err = NoError)
          => /\ Cardinality(ResponseWrote(response')) = 1
             /\ \A k \in ResponseWrote(response') : k[1] = "voter"
       /\ (response'.op = "emitVote" /\ response'.err = NoError)
          => /\ Len(response'.writes) = 2
             /\ response'.writes[1].key
                  = Key("voter", response'.args.voterId)
             /\ response'.writes[2].key[1] = "vote"]_vars

\* A vote was cast and every record initContract stored is as it stored it.
C30_Witness ==
    /\ response.op = "emitVote"
    /\ response.err = NoError
    /\ \A k \in {s \in SetupKeys : s[1] = "candidate"} :
          HasData(ledger[k]) /\ ledger[k].voteCount = 0

\* C31: a Vote record, once written, is never overwritten or deleted: every
\* successful emitVote writes its Vote under a key that held no record
\* before, so the number of Vote records equals the number of successful
\* emitVote transactions.
C31_VoteWrittenOnce ==
    [][/\ \A k \in KeysOfType("vote") : ledger'[k] = ledger[k]
       /\ Cardinality(KeysOfType("vote"))' = Cardinality(cast')]_vars

\* C32: in every reachable ledger state every VotableItem's electionId is
\* the id of an Election record that exists in the ledger.
C32_CandidateElectionExists ==
    \A k \in KeysOfType("votable") :
       /\ ledger[k].electionId \in ElectionIds
       /\ HasData(ledger[Key("election", ledger[k].electionId)])

\* C33: in every reachable ledger state the stored Event satisfies
\* startDate < endDate.
C33_WindowNotInverted ==
    \A k \in KeysOfType("event") :
       DateGetTime(ledger[k].startDate) < DateGetTime(ledger[k].endDate)

\* The condition under which readCandidate and getElectionResults hand out
\* data for the event validateInit returns: now is not before its endDate.
ResultsAvailable(event, now) ==
    ~JsLt(now, DateGetTime(GetProp(event, "endDate")))

\* C35: for every stored Event and every time now, the voting-open
\* condition of emitVote and the results-available condition of
\* readCandidate and getElectionResults are never both true.
C35_VotingAndResultsExclusive ==
    Initialized
    => \A now \in Times :
          ~(/\ IsVotingOpen(ValidateInit(ledger).event, now)
            /\ ResultsAvailable(ValidateInit(ledger).event, now))

\* C36: the voteCount of every VotableItem record is 0 when created and
\* after any sequence of emitVote transactions; readCandidate and
\* getElectionResults report voteCount 0, and the candidate snapshots inside
\* Vote records carry voteCount 0.
C36_VoteCountZero ==
    /\ \A k \in KeysOfType("votable") : ledger[k].voteCount = 0
    /\ \A k \in KeysOfType("vote") :
          \A i \in 1..Len(Parse(ledger[k].selectedCandidates)) :
             Parse(ledger[k].selectedCandidates)[i].voteCount = 0
    /\ (response.op = "readCandidate" /\ response.err = NoError)
       => response.ret.voteCount = 0
    /\ (response.op = "getElectionResults" /\ response.err = NoError)
       => \A i \in 1..Len(response.ret) : response.ret[i].record.voteCount = 0

\* getElectionResults listed the two candidates of an election after both
\* voters voted in it.
C36_Witness ==
    /\ response.op = "getElectionResults"
    /\ response.err = NoError
    /\ Len(response.ret) = 2
    /\ \A v \in VoterIds : HasCast(response.args.electionId, v)

\* C37: no Vote record lists the same candidate twice.
C37_NoRepeatedCandidate ==
    \A k \in KeysOfType("vote") :
       \A i, j \in 1..Len(SelectedIds(ledger[k])) :
          SelectedIds(ledger[k])[i] = SelectedIds(ledger[k])[j] => i = j

\* C38: no lost update of the voted-set: when emitVote transactions of one
\* voter for different elections are simulated against the same snapshot,
\* every election for which a Vote record of the voter exists, and every
\* election in which a vote of the voter committed, is in the voter's
\* votedElectionIds.
C38_NoLostVotedSet ==
    \A v \in VoterIds, e \in ElectionIds :
       (VoteKeys(v, e) # {} \/ HasCast(e, v)) => VotedIn(ledger, v, e)

\* An emitVote in flight for one election, outdated by the committed vote of
\* the same voter in the other election.
C38_Witness ==
    \E slot \in Slots :
        LET p == inflight[slot]
        IN  /\ p.op = "emitVote"
            /\ p.stale
            /\ ~HasCast(p.args.electionId, p.args.voterId)
            /\ \E e \in ElectionIds \ {p.args.electionId} :
                  /\ HasCast(e, p.args.voterId)
                  /\ VoteKeys(p.args.voterId, e) # {}
                  /\ VotedIn(ledger, p.args.voterId, e)

\* The key of id in the implicit collection of organization org, spelt out.
OrgKey(org, id) == <<<<"_implicit_org_", org>>, id>>

\* What the ledger holds for id in the implicit collection of org.
Held(org, id) ==
    IF OrgKey(org, id) \in DOMAIN ledger THEN ledger[OrgKey(org, id)]
    ELSE NoState

\* C39: private records are scoped to the caller's organization: create,
\* read, update, delete and exists act only on the collection
\* '_implicit_org_<caller MSP id>', so what an organization stored is not
\* reported to a caller of another organization and is never changed by
\* another organization's create, update or delete; verifyBoxtingVoting
\* consults the collection of the organization id passed as argument, not
\* the caller's.
C39_ScopedToCallerOrg ==
    [][LET a == response'.args
           op == response'.op
       IN  /\ op \in {"createBoxtingVoting", "updateBoxtingVoting",
                      "deleteBoxtingVoting"}
              => \A k \in DOMAIN ledger :
                    k # OrgKey(a.mspid, a.id) => ledger'[k] = ledger[k]
           /\ op = "boxtingVotingExists"
              => /\ response'.ret = HasData(Held(a.mspid, a.id))
                 /\ ledger' = ledger
           /\ op = "readBoxtingVoting"
              => /\ ledger' = ledger
                 /\ IF HasData(Held(a.mspid, a.id))
                    THEN Stringify(response'.ret)
                           = Held(a.mspid, a.id)
                    ELSE response'.err = ErrAssetMissing
           /\ op = "verifyBoxtingVoting"
              => /\ ledger' = ledger
                 /\ IF HasData(Held(a.mspid, a.id))
                    THEN response'.ret
                           = (Stringify(a.objectToVerify)
                                = Held(a.mspid, a.id))
                    ELSE response'.err = ErrNoHash]_vars

\* A caller of one organization verified, with success, a payload held only
\* by the other organization.
C39_Witness ==
    /\ response.op = "verifyBoxtingVoting"
    /\ response.err = NoError
    /\ response.ret = TRUE
    /\ response.args.caller # response.args.mspid
    /\ ~HasData(Held(response.args.caller, response.args.id))

\* C34: every query iterator opened by queryWithQueryString is closed
\* before the handler that opened it finishes, on every path; no reachable
\* state has a finished handler with an open iterator.
C34_IteratorClosed == ~Idle => iterator.state # "open"

\* What queryWithQueryString returns when no next() fails is what the
\* handlers are given.
QueryStepsAgree ==
    (~Idle /\ response.err = NoError)
    => /\ iterator.state = "closed"
       /\ response.ret = QueryWithQueryString(ledger, response.args.selector)

====
